---- MODULE Spec2Model ----
(***************************************************************************)
(* A model of the two developer tools of the repository:                   *)
(*   tools/clang_format_all.py  the formatter driver                       *)
(*   tools/generate_docs.py     the doc extractor                          *)
(*                                                                         *)
(* Spec      one run of the formatter driver (main and what it calls)       *)
(* SpecFind  find_cpp_files applied to bounded file trees                   *)
(* SpecLoad  one run of the doc extractor script as the interpreter sees it *)
(* SpecDocs  parse_header and the page builder applied to bounded headers  *)
(***************************************************************************)
EXTENDS Integers, Sequences, FiniteSets, TLC

VARIABLES
    \* ---- formatter driver (clang_format_all.py) ----
    args,             \* parsed command line: check, dry_run, verbose, paths
    project_root,     \* the directory find_project_root returned (path parts)
    tree,             \* the entries below project_root
    pc,               \* position of main
    probe_i,          \* index into the name list of check_clang_format
    clang_format,     \* the selected executable name, "" before selection
    cpp_files,        \* the list main iterates over
    file_i,           \* index of the next list entry of the for loop
    needs_formatting, \* the counter of main
    calls,            \* every subprocess.run issued so far, in order
    printed,          \* the messages printed so far (those the claims speak of)
    exit,             \* how the command ended: "none", "return", "sysexit", "uncaught"
    status,           \* the process exit status once ended, -1 before
    \* ---- find_cpp_files applied on its own ----
    find_root,        \* the root given to find_cpp_files
    find_result,      \* what it returned
    find_done,
    \* ---- doc extractor (generate_docs.py) ----
    dpc,              \* position of the doc extractor
    include_exists,   \* does include/Zyrnix exist
    headers_on_disk,  \* stems of the *.hpp files in the include directory
    unreadable,       \* the stems whose read_text raises
    written,          \* the files written so far, in order
    dexit,            \* how the script ended
    dstatus,          \* its exit status, -1 before
    content,          \* the text of one header, as a sequence of lines
    readable,         \* whether read_text of that header succeeds
    header,           \* the Header parse_header returned
    page              \* the page generate_docs builds for that header

fmtvars == <<args, project_root, tree, pc, probe_i, clang_format, cpp_files,
             file_i, needs_formatting, calls, printed, exit, status>>
findvars == <<find_root, find_result, find_done>>
docvars == <<dpc, include_exists, headers_on_disk, unreadable, written, dexit,
             dstatus, content, readable, header, page>>
vars == <<fmtvars, findvars, docvars>>

(***************************************************************************)
(* Bounds of the model.                                                    *)
(***************************************************************************)
MaxEntries == 2     \* entries of a file tree (their ancestors come with them)
MaxDepth == 2       \* depth of an entry below the root
MaxLines == 4       \* lines of a header text

(***************************************************************************)
(* Paths.  A path is the sequence of its components (pathlib's parts).     *)
(***************************************************************************)
IsPrefix(p, q) == Len(p) <= Len(q) /\ SubSeq(q, 1, Len(p)) = p

IsStrictPrefix(p, q) == Len(p) < Len(q) /\ SubSeq(q, 1, Len(p)) = p

Last(s) == s[Len(s)]

\* The component names of the model, in Python's string order (code points).
NameOrder == <<"a.cpp", "b.h", "build", "home", "n.txt", "proj", "src", "tmp", "x.cpp">>

Rank(n) == CHOOSE i \in 1..Len(NameOrder) : NameOrder[i] = n

\* the names an entry below a root can have
Names == {"a.cpp", "build", "n.txt", "src"}

\* PurePath.suffix of the final component
Suffix(n) ==
    CASE n = "a.cpp" -> ".cpp"
      [] n = "x.cpp" -> ".cpp"
      [] n = "b.h" -> ".h"
      [] n = "n.txt" -> ".txt"
      [] OTHER -> ""

CPP_EXTENSIONS == {".cpp", ".hpp", ".h", ".cc", ".cxx", ".hxx", ".c"}

SKIP_DIRS == {"build", "cmake-build-debug", "cmake-build-release", "out",
              ".git", "third_party", "external", "vendor"}

\* PurePath.__lt__: the parts compared as lists of strings
RECURSIVE PathLess(_, _)
PathLess(p, q) ==
    IF p = <<>> THEN q # <<>>
    ELSE IF q = <<>> THEN FALSE
    ELSE IF p[1] = q[1] THEN PathLess(Tail(p), Tail(q))
    ELSE Rank(p[1]) < Rank(q[1])

\* list insertion keeping the order, the step of sorted()
RECURSIVE Insert(_, _)
Insert(p, s) ==
    IF s = <<>> THEN <<p>>
    ELSE IF PathLess(s[1], p) THEN <<s[1]>> \o Insert(p, Tail(s))
    ELSE <<p>> \o s

RECURSIVE sorted(_)
sorted(s) == IF s = <<>> THEN <<>> ELSE Insert(s[1], sorted(Tail(s)))

(***************************************************************************)
(* File trees.  An entry is a relative path with a kind; the directories   *)
(* above an entry exist with it.                                           *)
(***************************************************************************)
RelPaths == UNION {[1..d -> Names] : d \in 1..MaxDepth}

\* A file can have any name; the directory entries are the ones whose own
\* name carries a recognized extension (the others come as ancestors).
Entries ==
    [rel : RelPaths, kind : {"file"}]
    \cup [rel : {r \in RelPaths : Suffix(Last(r)) \in CPP_EXTENSIONS}, kind : {"dir"}]

ConsistentTree(t) ==
    \A e \in t : \A f \in t :
        /\ (e.rel = f.rel => e = f)
        /\ (IsStrictPrefix(e.rel, f.rel) => e.kind = "dir")

\* the subsets of S with at most k members
RECURSIVE SubsetsUpTo(_, _)
SubsetsUpTo(S, k) ==
    IF k = 0 THEN {{}}
    ELSE LET smaller == SubsetsUpTo(S, k - 1)
         IN  smaller \cup {t \cup {e} : t \in smaller, e \in S}

Trees == {t \in SubsetsUpTo(Entries, MaxEntries) : ConsistentTree(t)}

\* every node of the file system below root: the entries and their ancestors
FsNodes(root, t) ==
    {[path |-> root \o e.rel, kind |-> e.kind] : e \in t}
    \cup UNION {{[path |-> root \o SubSeq(e.rel, 1, k), kind |-> "dir"] :
                    k \in 1..(Len(e.rel) - 1)} : e \in t}

\* Path.rglob('*'): every node strictly below dir
rglob(fs, dir) == {n \in fs : IsStrictPrefix(dir, n.path)}

\* every sequence that lists the members of S once each
Orderings(S) ==
    {s \in [1..Cardinality(S) -> S] : \A i, j \in 1..Cardinality(S) : s[i] = s[j] => i = j}

(***************************************************************************)
(* find_cpp_files                                                          *)
(***************************************************************************)
\* Skipped with the bug of looking at the final component only
SkippedLastOnly(parts) == Last(parts) \in SKIP_DIRS

\* any(skip_dir in path.parts for skip_dir in SKIP_DIRS)
Skipped(parts) == \E i \in 1..Len(parts) : parts[i] \in SKIP_DIRS

\* path.is_file() and path.suffix in CPP_EXTENSIONS
IsCppFile(n) == n.kind = "file" /\ Suffix(Last(n.path)) \in CPP_EXTENSIONS

\* the loop body: the paths the loop appends to cpp_files
Appended(fs, dir) == {n.path : n \in {m \in rglob(fs, dir) : ~Skipped(m.path) /\ IsCppFile(m)}}

\* The values find_cpp_files(dir) can return.  rglob yields the nodes in the
\* operating system's directory order; the loop keeps or drops each node on
\* its own, so cpp_files is the appended paths in the order rglob met them.
find_cpp_files(fs, dir) == {sorted(walk) : walk \in Orderings(Appended(fs, dir))}

(***************************************************************************)
(* The formatter driver: main of clang_format_all.py                       *)
(***************************************************************************)
\* the name list of check_clang_format, in its order
TOOL_NAMES == <<"clang-format", "clang-format-17", "clang-format-16",
                "clang-format-15", "clang-format-14">>

\* What subprocess.run([name, '--version']) can do: return with exit code 0
\* or non-zero, raise FileNotFoundError (no such executable), or raise another
\* OSError (PermissionError: the file is there and cannot be executed).
ProbeResults == {"exit0", "exit1", "FileNotFoundError", "PermissionError"}

\* what a per-file run of the selected tool can return
ToolResults == {"exit0", "exit1"}

\* ProbeSelects with the bug of taking any executable that ran
ProbeSelectsAnyExit(res) == res \in {"exit0", "exit1"}

\* result.returncode == 0 in check_clang_format
ProbeSelects(res) == res = "exit0"

\* the probe raised something the try block does not catch
ProbeRaises(res) == res \notin {"exit0", "exit1", "FileNotFoundError"}

\* FormatCommand with the bug of ignoring check_only
FormatCommandAlwaysInPlace(check_only) == "inplace"

\* format_file: the command form it runs
FormatCommand(check_only) == IF check_only THEN "check" ELSE "inplace"

\* format_file: its return value
FormatFileReturns(check_only, res) ==
    IF check_only THEN res # "exit0" ELSE res = "exit0"

\* format_file: what it prints
FormatFilePrints(check_only, verbose, filepath, res) ==
    (IF verbose THEN <<[msg |-> "Processing", file |-> filepath]>> ELSE <<>>)
    \o (IF res = "exit0" THEN <<>>
        ELSE IF check_only THEN <<[msg |-> "Needs formatting", file |-> filepath]>>
        ELSE <<[msg |-> "Error formatting", file |-> filepath]>>)

\* MoreFiles with the bug of stopping one entry early
MoreFilesOffByOne(i, files) == i < Len(files)

\* the for loop over cpp_files has an entry left
MoreFiles(i, files) == i <= Len(files)

\* ExitStatus with the bug of returning the count's verdict in fix mode too
ExitStatusAnyMode(check, needs) == IF needs > 0 THEN 1 ELSE 0

\* the value main returns after the loop
ExitStatus(check, needs) ==
    IF check THEN (IF needs > 0 THEN 1 ELSE 0) ELSE 0

\* the file trees the driver is run on
DriverRels == {<<"a.cpp">>, <<"b.h">>, <<"src", "a.cpp">>, <<"build", "b.h">>}

DriverTrees == {t \in SubsetsUpTo([rel : DriverRels, kind : {"file"}], MaxEntries) :
                    ConsistentTree(t)}

DriverRoot == <<"home", "proj">>

\* a file outside the project root
OutsideFile == <<"tmp", "x.cpp">>

\* the positional arguments the driver is run with
PathLists ==
    {<<>>, <<DriverRoot \o <<"a.cpp">>>>, <<DriverRoot \o <<"src">>>>, <<OutsideFile>>,
     <<DriverRoot \o <<"src">>, OutsideFile>>}

\* the file system of a driver run
DriverFs ==
    FsNodes(project_root, tree)
    \cup {[path |-> OutsideFile, kind |-> "file"], [path |-> <<"tmp">>, kind |-> "dir"]}

is_file(fs, p) == \E n \in fs : n.path = p /\ n.kind = "file"

is_dir(fs, p) == \E n \in fs : n.path = p /\ n.kind = "dir"

\* main, the args.paths branch: the lists the loop over args.paths can build
RECURSIVE FromPaths(_, _)
FromPaths(fs, paths) ==
    IF paths = <<>> THEN {<<>>}
    ELSE LET p == paths[1]
             piece == IF is_file(fs, p) THEN {<<p>>}
                      ELSE IF is_dir(fs, p) THEN find_cpp_files(fs, p)
                      ELSE {<<>>}
         IN  {h \o t : h \in piece, t \in FromPaths(fs, Tail(paths))}

FmtIdle ==
    /\ args = [check |-> FALSE, dry_run |-> FALSE, verbose |-> FALSE, paths |-> <<>>]
    /\ project_root = <<>>
    /\ pc = "idle"
    /\ probe_i = 0
    /\ clang_format = ""
    /\ cpp_files = <<>>
    /\ file_i = 0
    /\ needs_formatting = 0
    /\ calls = <<>>
    /\ printed = <<>>
    /\ exit = "none"
    /\ status = -1

FindIdle ==
    /\ find_root = <<>>
    /\ find_result = <<>>
    /\ find_done = FALSE

DocIdle ==
    /\ dpc = "idle"
    /\ include_exists = FALSE
    /\ headers_on_disk = {}
    /\ unreadable = {}
    /\ written = <<>>
    /\ dexit = "none"
    /\ dstatus = -1
    /\ content = <<>>
    /\ readable = FALSE
    /\ header = [description |-> <<>>, classes |-> <<>>]
    /\ page = <<>>

\* main up to the call of check_clang_format: the arguments are parsed and
\* the project root is found
Init ==
    /\ args \in [check : BOOLEAN, dry_run : BOOLEAN, verbose : BOOLEAN, paths : PathLists]
    /\ project_root = DriverRoot
    /\ tree \in DriverTrees
    /\ pc = "probe"
    /\ probe_i = 1
    /\ clang_format = ""
    /\ cpp_files = <<>>
    /\ file_i = 0
    /\ needs_formatting = 0
    /\ calls = <<>>
    /\ printed = <<>>
    /\ exit = "none"
    /\ status = -1
    /\ FindIdle
    /\ DocIdle

\* check_clang_format: one turn of its loop over the names
ProbeName ==
    /\ pc = "probe"
    /\ probe_i <= Len(TOOL_NAMES)
    /\ \E res \in ProbeResults :
        /\ calls' = Append(calls, [tool |-> TOOL_NAMES[probe_i], form |-> "version",
                                   file |-> <<>>, res |-> res])
        /\ IF ProbeSelects(res)
           THEN /\ clang_format' = TOOL_NAMES[probe_i]
                /\ pc' = "version"
                /\ UNCHANGED <<probe_i, exit, status>>
           ELSE IF ProbeRaises(res)
           THEN /\ exit' = "uncaught"
                /\ status' = 1
                /\ pc' = "done"
                /\ UNCHANGED <<probe_i, clang_format>>
           ELSE /\ probe_i' = probe_i + 1
                /\ UNCHANGED <<clang_format, pc, exit, status>>
    /\ UNCHANGED <<args, project_root, tree, cpp_files, file_i, needs_formatting, printed>>
    /\ UNCHANGED <<findvars, docvars>>

\* check_clang_format: no name answered, the message and sys.exit(1)
NotFound ==
    /\ pc = "probe"
    /\ probe_i > Len(TOOL_NAMES)
    /\ printed' = Append(printed, [msg |-> "clang-format not found", file |-> <<>>])
    /\ exit' = "sysexit"
    /\ status' = 1
    /\ pc' = "done"
    /\ UNCHANGED <<args, project_root, tree, probe_i, clang_format, cpp_files, file_i,
                   needs_formatting, calls>>
    /\ UNCHANGED <<findvars, docvars>>

\* main: the version query of the selected tool; its result is not read
VersionQuery ==
    /\ pc = "version"
    /\ calls' = Append(calls, [tool |-> clang_format, form |-> "version",
                               file |-> <<>>, res |-> "unread"])
    /\ printed' = Append(printed, [msg |-> "Using", file |-> <<>>])
    /\ pc' = "discover"
    /\ UNCHANGED <<args, project_root, tree, probe_i, clang_format, cpp_files, file_i,
                   needs_formatting, exit, status>>
    /\ UNCHANGED <<findvars, docvars>>

\* main: the file list, from args.paths or from the project root
Discover ==
    /\ pc = "discover"
    /\ \E files \in (IF args.paths # <<>> THEN FromPaths(DriverFs, args.paths)
                     ELSE find_cpp_files(DriverFs, project_root)) :
        cpp_files' = files
    /\ printed' = Append(printed, [msg |-> "Found", file |-> <<>>])
    /\ file_i' = 1
    /\ pc' = IF args.dry_run THEN "list" ELSE "loop"
    /\ UNCHANGED <<args, project_root, tree, probe_i, clang_format, needs_formatting,
                   calls, exit, status>>
    /\ UNCHANGED <<findvars, docvars>>

\* main: the --dry-run listing.  f.relative_to(project_root) raises ValueError
\* for a path that does not start with project_root.
DryRunList ==
    /\ pc = "list"
    /\ LET bad == {i \in 1..Len(cpp_files) : ~IsPrefix(project_root, cpp_files[i])}
           upto == IF bad = {} THEN Len(cpp_files)
                   ELSE (CHOOSE i \in bad : \A j \in bad : i <= j) - 1
       IN  /\ printed' = printed \o [i \in 1..upto |->
                                        [msg |-> "Would format", file |-> cpp_files[i]]]
           /\ exit' = IF bad = {} THEN "return" ELSE "uncaught"
           /\ status' = IF bad = {} THEN 0 ELSE 1
    /\ pc' = "done"
    /\ UNCHANGED <<args, project_root, tree, probe_i, clang_format, cpp_files, file_i,
                   needs_formatting, calls>>
    /\ UNCHANGED <<findvars, docvars>>

\* main: one turn of the loop over cpp_files, the call of format_file
FormatFile ==
    /\ pc = "loop"
    /\ MoreFiles(file_i, cpp_files)
    /\ \E res \in ToolResults :
        /\ calls' = Append(calls, [tool |-> clang_format, form |-> FormatCommand(args.check),
                                   file |-> cpp_files[file_i], res |-> res])
        /\ printed' = printed \o FormatFilePrints(args.check, args.verbose,
                                                  cpp_files[file_i], res)
        /\ needs_formatting' = IF FormatFileReturns(args.check, res)
                               THEN needs_formatting + 1 ELSE needs_formatting
    /\ file_i' = file_i + 1
    /\ UNCHANGED <<args, project_root, tree, pc, probe_i, clang_format, cpp_files,
                   exit, status>>
    /\ UNCHANGED <<findvars, docvars>>

\* main: the summary after the loop and the return
Summary ==
    /\ pc = "loop"
    /\ ~MoreFiles(file_i, cpp_files)
    /\ printed' = Append(printed, [msg |-> "Summary", file |-> <<>>])
    /\ exit' = "return"
    /\ status' = ExitStatus(args.check, needs_formatting)
    /\ pc' = "done"
    /\ UNCHANGED <<args, project_root, tree, probe_i, clang_format, cpp_files, file_i,
                   needs_formatting, calls>>
    /\ UNCHANGED <<findvars, docvars>>

Next ==
    \/ ProbeName
    \/ NotFound
    \/ VersionQuery
    \/ Discover
    \/ DryRunList
    \/ FormatFile
    \/ Summary

Spec == Init /\ [][Next]_vars

(***************************************************************************)
(* find_cpp_files applied to a root and a file tree                        *)
(***************************************************************************)
Roots == {<<"home", "proj">>, <<"build", "proj">>}

InitFind ==
    /\ FmtIdle
    /\ tree \in Trees
    /\ find_root \in Roots
    /\ find_result = <<>>
    /\ find_done = FALSE
    /\ DocIdle

FindCppFiles ==
    /\ pc = "idle"
    /\ find_root # <<>>
    /\ ~find_done
    /\ \E r \in find_cpp_files(FsNodes(find_root, tree), find_root) : find_result' = r
    /\ find_done' = TRUE
    /\ UNCHANGED <<find_root, fmtvars, docvars>>

NextFind == FindCppFiles

SpecFind == InitFind /\ [][NextFind]_vars

(***************************************************************************)
(* Properties of the formatter driver                                      *)
(***************************************************************************)
\* the per-file invocations among the calls, in order
PerFileCalls == SelectSeq(calls, LAMBDA c : c.form # "version")

\* the probes of check_clang_format among the calls: the first probe_i or so
ProbeCalls == SelectSeq(calls, LAMBDA c : c.form = "version" /\ c.res # "unread")

\* C1: a run that selected a formatter, is not a --dry-run run and returned
\* from main has status 1 exactly when --check was given and some per-file
\* invocation returned non-zero; otherwise its status is 0.
C1_ExitCodeReflectsCheckOnly ==
    (exit = "return" /\ ~args.dry_run) =>
        /\ clang_format # ""
        /\ status = IF args.check /\ \E i \in 1..Len(PerFileCalls) : PerFileCalls[i].res # "exit0"
                    THEN 1 ELSE 0

C1_Witness ==
    /\ exit = "return"
    /\ ~args.dry_run
    /\ ~args.check
    /\ Len(PerFileCalls) >= 2
    /\ PerFileCalls[1].res = "exit0"
    /\ PerFileCalls[2].res = "exit1"
    /\ status = 0

\* C2: a run started with --dry-run never invokes the formatter executable in
\* any form, and ends by returning after listing the files.
C2_DryRunNeverInvokesFormatter ==
    args.dry_run =>
        /\ calls = <<>>
        /\ (pc = "done" => exit = "return")

\* C3: the command never ends by an uncaught exception.
C3_NoUncaughtException == exit # "uncaught"

\* C5: the selected tool is the earliest name of the list whose version query
\* exited 0 (the names before it were queried, in list order, and did not);
\* every per-file invocation uses the selected name; and when no name answered
\* with exit 0 the run ends with status 1 before any file is discovered or
\* processed.
C5_ToolResolution ==
    /\ \A i \in 1..Len(ProbeCalls) : ProbeCalls[i].tool = TOOL_NAMES[i]
    /\ clang_format # "" =>
        /\ ProbeCalls # <<>>
        /\ Last(ProbeCalls).tool = clang_format
        /\ Last(ProbeCalls).res = "exit0"
        /\ \A i \in 1..(Len(ProbeCalls) - 1) : ProbeCalls[i].res # "exit0"
    /\ \A i \in 1..Len(PerFileCalls) :
        clang_format # "" /\ PerFileCalls[i].tool = clang_format
    /\ (pc = "done" /\ Len(ProbeCalls) = Len(TOOL_NAMES)
            /\ \A i \in 1..Len(ProbeCalls) : ProbeCalls[i].res # "exit0") =>
        /\ status = 1
        /\ cpp_files = <<>>
        /\ PerFileCalls = <<>>
        /\ \A i \in 1..Len(printed) : printed[i].msg # "Found"

C5_Witness ==
    /\ clang_format = TOOL_NAMES[3]
    /\ ProbeCalls[1].res = "FileNotFoundError"
    /\ ProbeCalls[2].res = "exit1"
    /\ Len(PerFileCalls) >= 2

\* C6: in a run that is not a --dry-run run the tool is invoked once per list
\* entry, in list order: while the loop runs the per-file invocations are the
\* entries before the loop index, whatever the exit codes were, and the run
\* returns only after the last entry, with the summary printed.
C6_OncePerEntryInOrder ==
    (pc \in {"loop", "done"} /\ ~args.dry_run /\ exit # "sysexit" /\ clang_format # "") =>
        /\ Len(PerFileCalls) = file_i - 1
        /\ Len(PerFileCalls) <= Len(cpp_files)
        /\ \A i \in 1..Len(PerFileCalls) : PerFileCalls[i].file = cpp_files[i]
        /\ pc = "done" =>
            /\ Len(PerFileCalls) = Len(cpp_files)
            /\ exit = "return"
            /\ Last(printed).msg = "Summary"

C6_Witness ==
    /\ pc = "done"
    /\ ~args.dry_run
    /\ ~args.check
    /\ Len(cpp_files) >= 2
    /\ Len(PerFileCalls) = Len(cpp_files)
    /\ PerFileCalls[1].res = "exit1"
    /\ Last(printed).msg = "Summary"

\* C7: in a run started with --check the in-place command form is never
\* issued; every file goes to the dry-run/error-on-diff form.
C7_CheckNeverInPlace ==
    args.check => \A i \in 1..Len(PerFileCalls) : PerFileCalls[i].form = "check"

C7_Witness ==
    /\ args.check
    /\ Len(PerFileCalls) >= 2
    /\ PerFileCalls[1].res = "exit1"

(***************************************************************************)
(* Properties of find_cpp_files                                            *)
(***************************************************************************)
\* a directory above p (up to the file system's root) has an excluded name
InExcludedDir(p) == \E i \in 1..(Len(p) - 1) : p[i] \in SKIP_DIRS

\* the regular files below the root, outside the excluded directories, with
\* a recognized extension
RecognizedFiles ==
    {n.path : n \in {m \in FsNodes(find_root, tree) :
        /\ IsStrictPrefix(find_root, m.path)
        /\ m.kind = "file"
        /\ Suffix(Last(m.path)) \in CPP_EXTENSIONS
        /\ ~InExcludedDir(m.path)}}

\* C4: find_cpp_files returns exactly the regular files below the root that
\* lie outside the excluded directories and have a recognized extension, no
\* path with an excluded name as a component, in ascending path order, no
\* path twice.
C4_FindCppFilesExact ==
    find_done =>
        /\ {find_result[i] : i \in 1..Len(find_result)} = RecognizedFiles
        /\ \A i \in 1..Len(find_result) :
            \A k \in 1..Len(find_result[i]) : find_result[i][k] \notin SKIP_DIRS
        /\ \A i, j \in 1..Len(find_result) : i < j => PathLess(find_result[i], find_result[j])

C4_Witness ==
    /\ find_done
    /\ Len(find_result) = 1
    /\ \E e \in tree : e.kind = "file" /\ Suffix(Last(e.rel)) \in CPP_EXTENSIONS
                       /\ find_root \o e.rel \notin RecognizedFiles

(***************************************************************************)
(* The doc extractor: generate_docs.py                                     *)
(*                                                                         *)
(* A header text is a sequence of lines.  A line is known by its kind; its *)
(* words are known by its number, so the words of two lines never agree.   *)
(*   code       int x;                  blank                              *)
(*   doc1       /** T */                plain1     /* T */                 *)
(*   docopen    /** T                   sl3        /// T                   *)
(*   mid         * T                    sl2        // T                    *)
(*   close       */                                                        *)
(*   class      class N {               struct     struct N {              *)
(*   classbase  class N : public B {                                       *)
(***************************************************************************)
LineKinds == {"code", "blank", "doc1", "docopen", "mid", "close", "plain1",
              "sl3", "sl2", "class", "classbase", "struct"}

DeclKinds == {"class", "classbase", "struct"}

\* A block comment that is opened is continued and closed, and only such a
\* comment holds continuation and closing lines.
WellFormed(c) ==
    \A i \in 1..Len(c) :
        /\ c[i] \in {"mid", "close"} => i > 1 /\ c[i - 1] \in {"docopen", "mid"}
        /\ c[i] \in {"docopen", "mid"} => i < Len(c) /\ c[i + 1] \in {"mid", "close"}

Contents == {c \in UNION {[1..n -> LineKinds] : n \in 0..MaxLines} : WellFormed(c)}

\* str.rstrip of the first n lines: the last line that is not blank, or 0
RECURSIVE LastNonBlank(_, _)
LastNonBlank(c, n) ==
    IF n = 0 THEN 0
    ELSE IF c[n] # "blank" THEN n
    ELSE LastNonBlank(c, n - 1)

\* the line ends with the two characters */
EndsComment(kind) == kind \in {"doc1", "close", "plain1"}

\* the line holds the three characters /**
HoldsDocOpen(kind) == kind \in {"doc1", "docopen"}

\* extract_doxygen_comment, the three re.sub calls and strip on one line of
\* the comment: the words of a doxygen line, nothing for a line left empty,
\* and the line as it stands (its markers with it) for any other line
CleanLine(c, i) ==
    IF c[i] \in {"doc1", "docopen", "mid"} THEN <<[line |-> i, as |-> "words"]>>
    ELSE IF c[i] \in {"close", "blank"} THEN <<>>
    ELSE <<[line |-> i, as |-> "raw"]>>

\* extract_doxygen_comment, the block branch: lines from..to cleaned and joined
RECURSIVE CleanBlock(_, _, _)
CleanBlock(c, from, to) ==
    IF from > to THEN <<>>
    ELSE CleanLine(c, from) \o CleanBlock(c, from + 1, to)

\* extract_doxygen_comment, the line branch: walking up from line e
RECURSIVE LineComments(_, _)
LineComments(c, e) ==
    IF e = 0 THEN <<>>
    ELSE IF c[e] = "sl3" THEN Append(LineComments(c, e - 1), [line |-> e, as |-> "words"])
    ELSE IF c[e] = "sl2" THEN LineComments(c, e - 1)
    ELSE <<>>

\* extract_doxygen_comment(content, pos), pos being the end of line n.  The
\* description is the sequence of the pieces that ' '.join puts together.
extract_doxygen_comment(c, n) ==
    LET e == LastNonBlank(c, n)
        opens == {j \in 1..e : HoldsDocOpen(c[j])}
    IN  IF e > 0 /\ EndsComment(c[e]) /\ opens # {}
        THEN CleanBlock(c, CHOOSE j \in opens : \A k \in opens : k <= j, e)
        ELSE LineComments(c, e)

\* parse_header: re.search(r'/\*\*[\s\S]*?\*/', content[:500]); the line its
\* match ends on, or 0.  The headers of the model are shorter than 500
\* characters, so content[:500] is the content.
FileCommentEnd(c) ==
    LET opens == {j \in 1..Len(c) : HoldsDocOpen(c[j])}
    IN  IF opens = {} THEN 0
        ELSE LET first == CHOOSE j \in opens : \A k \in opens : j <= k
                 ends == {k \in first..Len(c) : EndsComment(c[k])}
             IN  IF ends = {} THEN 0 ELSE CHOOSE k \in ends : \A m \in ends : k <= m

\* parse_header: the Class built for the declaration on line i
ParsedClass(c, i) ==
    [name |-> i,
     is_struct |-> (c[i] = "struct"),
     description |-> extract_doxygen_comment(c, i - 1),
     base_classes |-> IF c[i] = "classbase" THEN <<[base_of |-> i]>> ELSE <<>>,
     methods |-> <<>>]

\* parse_header: the loop over class_pattern.finditer, for lines from..
RECURSIVE ParsedClasses(_, _)
ParsedClasses(c, from) ==
    IF from > Len(c) THEN <<>>
    ELSE (IF c[from] \in DeclKinds THEN <<ParsedClass(c, from)>> ELSE <<>>)
         \o ParsedClasses(c, from + 1)

parse_header(c, can_read) ==
    IF ~can_read THEN [description |-> <<>>, classes |-> <<>>]
    ELSE [description |-> IF FileCommentEnd(c) = 0 THEN <<>>
                          ELSE extract_doxygen_comment(c, FileCommentEnd(c)),
          classes |-> ParsedClasses(c, 1)]

\* generate_class_doc: the lines of one class
generate_class_doc(cls) ==
    <<[t |-> "h3", struct |-> cls.is_struct, name |-> cls.name], [t |-> "empty"]>>
    \o (IF cls.description # <<>>
        THEN <<[t |-> "text", v |-> cls.description], [t |-> "empty"]>> ELSE <<>>)
    \o (IF cls.base_classes # <<>>
        THEN <<[t |-> "inherits", v |-> cls.base_classes], [t |-> "empty"]>> ELSE <<>>)
    \o (IF cls.methods # <<>>
        THEN <<[t |-> "h4 Methods"], [t |-> "empty"]>>
             \o [i \in 1..Len(cls.methods) |-> [t |-> "method", v |-> cls.methods[i]]]
             \o <<[t |-> "empty"]>>
        ELSE <<>>)

RECURSIVE ClassDocs(_)
ClassDocs(classes) ==
    IF classes = <<>> THEN <<>>
    ELSE generate_class_doc(classes[1]) \o ClassDocs(Tail(classes))

\* generate_docs: doc_content, the page written for one header
PageContent(h) ==
    <<[t |-> "h1"], [t |-> "empty"], [t |-> "Header:"], [t |-> "empty"]>>
    \o (IF h.classes # <<>>
        THEN <<[t |-> "h2 Classes"], [t |-> "empty"]>> \o ClassDocs(h.classes)
        ELSE <<>>)

\* one header text, read or not, parsed and turned into its page
InitDocs ==
    /\ FmtIdle
    /\ tree = {}
    /\ FindIdle
    /\ dpc = "parse"
    /\ include_exists = TRUE
    /\ headers_on_disk = {}
    /\ unreadable = {}
    /\ written = <<>>
    /\ dexit = "none"
    /\ dstatus = -1
    /\ content \in Contents
    /\ readable \in BOOLEAN
    /\ header = [description |-> <<>>, classes |-> <<>>]
    /\ page = <<>>

ParseHeader ==
    /\ dpc = "parse"
    /\ header' = parse_header(content, readable)
    /\ dpc' = "page"
    /\ UNCHANGED <<include_exists, headers_on_disk, unreadable, written, dexit, dstatus,
                   content, readable, page>>
    /\ UNCHANGED <<fmtvars, findvars>>

BuildPage ==
    /\ dpc = "page"
    /\ page' = PageContent(header)
    /\ dpc' = "built"
    /\ UNCHANGED <<include_exists, headers_on_disk, unreadable, written, dexit, dstatus,
                   content, readable, header>>
    /\ UNCHANGED <<fmtvars, findvars>>

NextDocs == ParseHeader \/ BuildPage

SpecDocs == InitDocs /\ [][NextDocs]_vars

(***************************************************************************)
(* The doc extractor run as a script.  Line 251 of generate_docs.py is a   *)
(* lone name at column 0: it ends the body of generate_docs, and the       *)
(* indented line 252 after it is an IndentationError.  The interpreter     *)
(* rejects the file when it compiles it, before any statement of it runs.  *)
(***************************************************************************)
HeaderStems == {"format", "index", "logger", "sink"}

InitLoad ==
    /\ FmtIdle
    /\ tree = {}
    /\ FindIdle
    /\ dpc = "compile"
    /\ include_exists \in BOOLEAN
    /\ headers_on_disk \in SUBSET HeaderStems
    /\ unreadable \in SUBSET headers_on_disk
    /\ written = <<>>
    /\ dexit = "none"
    /\ dstatus = -1
    /\ content = <<>>
    /\ readable = FALSE
    /\ header = [description |-> <<>>, classes |-> <<>>]
    /\ page = <<>>

\* python generate_docs.py: the traceback of the IndentationError, status 1
CompileScript ==
    /\ dpc = "compile"
    /\ dexit' = "uncaught"
    /\ dstatus' = 1
    /\ dpc' = "done"
    /\ UNCHANGED <<include_exists, headers_on_disk, unreadable, written, content,
                   readable, header, page>>
    /\ UNCHANGED <<fmtvars, findvars>>

NextLoad == CompileScript

SpecLoad == InitLoad /\ [][NextLoad]_vars

(***************************************************************************)
(* Properties of the doc extractor                                         *)
(***************************************************************************)
\* glob('*.hpp') sorted: the stems in Python's string order
StemOrder == <<"format", "index", "logger", "sink">>

SortedHeaders == SelectSeq(StemOrder, LAMBDA h : h \in headers_on_disk)

\* C8: when the include directory exists the run writes one page per header,
\* in sorted order, a header that cannot be read getting the page of an empty
\* parsed header, and then the index with one link per header.
C8_PagePerHeaderAndIndex ==
    (dpc = "done" /\ include_exists) =>
        written = [i \in 1..Len(SortedHeaders) |->
                      [file |-> SortedHeaders[i], empty |-> SortedHeaders[i] \in unreadable]]
                  \o <<[file |-> "index", links |-> SortedHeaders]>>

\* the lines of the page before the first class heading
BeforeClasses(pg) == {i \in 1..Len(pg) : \A j \in 1..i : pg[j].t # "h3"}

\* C9: the page of a header holds the header's description, before its
\* classes, whenever that description is not empty; a class has its
\* "Inherits from" line exactly when a base class was captured, and there is
\* no Methods section for empty method lists.
C9_PageHoldsDescription ==
    dpc = "built" =>
        /\ header.description # <<>> =>
            \E i \in BeforeClasses(page) : page[i] = [t |-> "text", v |-> header.description]
        /\ Cardinality({i \in 1..Len(page) : page[i].t = "inherits"})
            = Cardinality({k \in 1..Len(header.classes) : header.classes[k].base_classes # <<>>})
        /\ (\A k \in 1..Len(header.classes) : header.classes[k].methods = <<>>)
            => \A i \in 1..Len(page) : page[i].t # "h4 Methods"

\* the lines of the comment directly above line i (blank lines between the
\* comment and line i set aside): the run of line comments, or the one block
\* comment, that ends on the last line before i
CommentAbove(c, i) ==
    LET e == LastNonBlank(c, i - 1)
    IN  IF e = 0 THEN {}
        ELSE IF c[e] \in {"sl3", "sl2"}
             THEN {j \in 1..e : \A m \in j..e : c[m] \in {"sl3", "sl2"}}
        ELSE IF c[e] \in {"doc1", "plain1"} THEN {e}
        ELSE IF c[e] = "close"
             THEN {j \in 1..e : \A m \in j..e : c[m] \in {"mid", "close"} \/ (m = j /\ c[m] = "docopen")}
        ELSE {}

\* the words of the lines of S of the given kinds, in source order
WordsOf(c, S, kinds) ==
    LET picked == SelectSeq([j \in 1..Len(c) |-> j], LAMBDA j : j \in S /\ c[j] \in kinds)
    IN  [k \in 1..Len(picked) |-> [line |-> picked[k], as |-> "words"]]

\* C10: the description of a class comes from the comment directly above its
\* declaration only: the words of the /// lines of the run of line comments,
\* or the block comment; nothing from before that comment; empty when no
\* comment is directly above.
C10_DescriptionFromCommentAbove ==
    dpc = "built" =>
        \A k \in 1..Len(header.classes) :
            LET cls == header.classes[k]
                above == CommentAbove(content, cls.name)
                e == LastNonBlank(content, cls.name - 1)
            IN  /\ \A t \in 1..Len(cls.description) : cls.description[t].line \in above
                /\ above = {} => cls.description = <<>>
                /\ (above # {} /\ content[e] \in {"sl3", "sl2"}) =>
                    cls.description = WordsOf(content, above, {"sl3"})
                /\ (above # {} /\ content[e] \in {"doc1", "close"}) =>
                    cls.description = WordsOf(content, above, {"doc1", "docopen", "mid"})

====
